---- MODULE Spec2Model ----
(***************************************************************************)
(* Model of the Is Around Connector integration                            *)
(* (custom_components/is_around_connector).                                *)
(*                                                                         *)
(*   SpecConn : the HTTP connector and its handle_401 decorator            *)
(*              (connector.py).                                            *)
(*   Spec     : one set-up config entry: the service handlers and the      *)
(*              coordinator update (the waiters), the websocket handlers   *)
(*              that answer them, and the futures that correlate the two   *)
(*              (__init__.py, coordinator.py).                             *)
(*   FairSpec : the same waiters and handlers under the event loop's       *)
(*              scheduling: a ready task runs and an armed timer fires.    *)
(*   SpecPdf  : handle_pdf_chunk under arbitrary chunk streams, with one   *)
(*              print_next_observance call waiting for the PDF.            *)
(***************************************************************************)
EXTENDS Integers, Sequences, FiniteSets, TLC

\* ------------------------------------------------------------------ bounds
\* number of wrapped connector calls explored in one behaviour
MaxConnCalls == 2
\* service calls and coordinator updates started in one behaviour
MaxCalls == 2
\* chunk messages remembered at a time
MaxChunkMsgs == 3
\* set-ups of config entries in one behaviour, the first entry's included
MaxSetups == 2
\* update_state messages with an entity_id handled in one behaviour
MaxStateMsgs == 2

\* ------------------------------------------------------------ connector.py
VARIABLES
  username,      \* IsAroundConnector._username ("None" until authenticate)
  password,      \* IsAroundConnector._password
  cookies,       \* IsAroundConnector._cookies: cookie name -> value ("absent": not in the dict)
  connPc,        \* position of the wrapper call: idle / try / auth / retry / done
  connOp,        \* the wrapped method being called
  connRes,       \* what the wrapper call gave its caller
  connErr,       \* the ClientResponseError e caught by the wrapper
  lastStatus,    \* outcome of the latest invocation of the wrapped method
  authCalls,     \* invocations of authenticate within the current call
  opCalls,       \* invocations of the wrapped method within the current call
  connCalls,     \* wrapper calls started so far
  connAtStart    \* credentials and cookies when the current call started

varsConn == <<username, password, cookies, connPc, connOp, connRes, connErr,
              lastStatus, authCalls, opCalls, connCalls, connAtStart>>

\* ------------------------------------------- __init__.py, coordinator.py
VARIABLES
  futures,        \* the asyncio.Future each waiter created last and passed to wait_for
  slot,           \* entry_data[key] for the three future keys: the waiter whose
                  \* future it holds, "none" when the key is absent
  observances_data, \* entry_data["observances_data"]
  pdf_chunks,     \* entry_data["pdf_chunks"]: request_id -> buffer
  pdfLog,         \* chunk messages handled for a request_id since its buffer was created
  pdfDone,        \* the latest reassembly: its messages, its string, the future it completed
  next_observance_date, \* hass.data[DOMAIN][entry_id + "_next_observance_date"]
  initiated_count,      \* hass.data[DOMAIN][entry_id + "_initiated_count"]
  stored,         \* what store.async_save last wrote
  sensorCount,    \* AttendancePushInitiatedCountSensor._attr_native_value
  sensorNextDate, \* NextObservanceSensor._attr_native_value
  coordData,      \* coordinator.data
  saving,         \* operation_result handlers suspended in await store.async_save
  pc,             \* position of each waiter
  date,           \* the date local of each waiter
  outcome,        \* how each waiter's latest call ended
  fired,          \* requests fired by each waiter's current call, per request kind
  calls           \* handler calls started so far

varsEntry == <<observances_data, pdf_chunks, pdfLog, pdfDone,
               next_observance_date, initiated_count, stored, sensorCount,
               sensorNextDate, coordData, saving>>
varsFut == <<futures, slot>>
varsTask == <<pc, date, outcome, fired, calls>>

\* the config entries, the update_state caches and their sensors, the
\* websocket registry and replies
VARIABLES
  entryState,     \* each config entry: "unloaded", "loading" (its dict is in
                  \* hass.data[DOMAIN], its platforms are not set up yet) or "loaded"
  cache,          \* entry_data[<kind>_data] of each entry, per update_state kind
  sensors,        \* what the four update_state sensors of each entry show
  registrations,  \* calls of websocket_api.async_register_command, per command
  reply,          \* replies sent on the connection for the websocket message
                  \* handled last
  testOutcome,    \* how the latest test_connection call ended
  stateMsgs,      \* update_state messages with an entity_id received so far
  inbox           \* the update_state message whose handler task is yet to run

\* what the service handlers leave behind
VARIABLES
  tmp_files,        \* temporary PDF files of print_next_observance on disk
  last_invoked,     \* native value of the Last Invoked sensor: 0 for None,
                    \* else the time of the signal, told by the ordinal of
                    \* the service call that sent it
  printCall,        \* entity_id of the print_pdf call made by the running or
                    \* latest print_next_observance call ("none": no call)
  printRequest,     \* what that call read to choose the printer entity, as
                    \* a sequence of one request (empty: nothing read yet)
  refreshRequests   \* coordinator.async_request_refresh() calls made by the
                    \* running or latest send_attendance call

varsService ==
  <<tmp_files, last_invoked, printCall, printRequest, refreshRequests>>

varsState ==
  <<entryState, cache, sensors, registrations, testOutcome, stateMsgs,
    inbox>>
varsHass == <<varsFut, varsEntry, varsTask, varsState, varsService, reply>>

vars == <<varsConn, varsHass>>

\* the four methods decorated with @handle_401
WrappedOps == {"get_observances", "download_pdf", "send_attendance_push",
               "get_attendance_stats"}

\* HTTP statuses the remote service answers with; raise_for_status raises
\* ClientResponseError for the statuses >= 400
HttpStatuses == {"200", "401", "403", "500"}

\* an exception that is not a ClientResponseError (connection failure)
ConnError == "ClientConnectionError"

\* outcome of one invocation of the wrapped method
OpOutcomes == HttpStatuses \cup {ConnError}

\* credentials a caller can pass to authenticate
Credentials == {"", "user"}

CookieNames == {"sid"}
CookieValues == {"v1", "v2"}
\* response.cookies of a login response: a possibly empty set of cookies
\* ("absent": the response does not carry that cookie)
ResponseCookies == [CookieNames -> CookieValues \cup {"absent"}]

\* self._cookies = {}
NoCookies == [n \in CookieNames |-> "absent"]

\* login outcomes: a status, or an exception inside session.post
LoginOutcomes == HttpStatuses \cup {ConnError}

\* "not self._username": None and the empty string are both falsy
Falsy(s) == s \in {"None", ""}

\* for cookie in response.cookies: self._cookies[cookie] = value
MergeCookies(old, resp) ==
  [n \in CookieNames |-> IF resp[n] # "absent" THEN resp[n] ELSE old[n]]

\* authenticate: True exactly for a 200 login response
AuthenticateOk(answer) == answer = "200"

\* the value a raised ClientResponseError carries to the caller
HttpError(status) == <<"ClientResponseError", status>>

\* except ClientResponseError as e: if e.status == 401
ShouldReauth_AnyClientError(status) == status \in {"401", "403"}
ShouldReauth(status) == status = "401"

\* return await func(self, *args, **kwargs) inside the except block: whatever
\* the retry raises leaves the wrapper, nothing catches it again
AfterRetry_Loop(answer) ==
  IF answer = "200" THEN "done" ELSE IF answer = "401" THEN "auth" ELSE "done"
AfterRetry(answer) == "done"

\* result of one invocation of the wrapped method as seen by its caller
OpResult(answer) ==
  IF answer = "200" THEN "ok"
  ELSE IF answer = ConnError THEN <<ConnError>>
  ELSE HttpError(answer)

InitConn ==
  /\ username = "None"
  /\ password = "None"
  /\ cookies = NoCookies
  /\ connPc = "idle"
  /\ connOp = "none"
  /\ connRes = "none"
  /\ connErr = "none"
  /\ lastStatus = "none"
  /\ authCalls = 0
  /\ opCalls = 0
  /\ connCalls = 0
  /\ connAtStart = <<"None", "None", NoCookies>>

\* config flow: connector.authenticate(username, password), no call in progress
Authenticate(u, p, answer, resp) ==
  /\ UNCHANGED varsHass
  /\ connPc = "idle"
  /\ username' = u
  /\ password' = p
  /\ cookies' = IF AuthenticateOk(answer) THEN MergeCookies(cookies, resp)
                ELSE cookies
  /\ UNCHANGED <<connPc, connOp, connRes, connErr, lastStatus, authCalls,
                 opCalls, connCalls, connAtStart>>

\* discard_session
DiscardSession ==
  /\ UNCHANGED varsHass
  /\ connPc = "idle"
  /\ cookies # NoCookies
  /\ cookies' = NoCookies
  /\ UNCHANGED <<username, password, connPc, connOp, connRes, connErr,
                 lastStatus, authCalls, opCalls, connCalls, connAtStart>>

\* wrapper entered: a caller awaits one of the decorated methods
ConnCallStart(op) ==
  /\ UNCHANGED varsHass
  /\ connPc = "idle"
  /\ connCalls < MaxConnCalls
  /\ connCalls' = connCalls + 1
  /\ connPc' = "try"
  /\ connOp' = op
  /\ connRes' = "none"
  /\ connErr' = "none"
  /\ lastStatus' = "none"
  /\ authCalls' = 0
  /\ opCalls' = 0
  /\ connAtStart' = <<username, password, cookies>>
  /\ UNCHANGED <<username, password, cookies>>

\* try: return await func(...) and, on ClientResponseError, the except block
\* up to its first await
ConnFirstAttempt(answer) ==
  /\ UNCHANGED varsHass
  /\ connPc = "try"
  /\ opCalls' = opCalls + 1
  /\ lastStatus' = answer
  /\ IF answer \in {"200", ConnError}
       THEN /\ connPc' = "done"
            /\ connRes' = OpResult(answer)
            /\ connErr' = connErr
       ELSE /\ connErr' = answer
            /\ IF ShouldReauth(answer)
                 THEN IF Falsy(username) \/ Falsy(password)
                        THEN /\ connPc' = "done"
                             /\ connRes' = HttpError(answer)
                        ELSE /\ connPc' = "auth"
                             /\ connRes' = connRes
                 ELSE /\ connPc' = "done"
                      /\ connRes' = HttpError(answer)
  /\ UNCHANGED <<username, password, cookies, connOp, authCalls, connCalls,
                 connAtStart>>

\* authenticated = await self.authenticate(self._username, self._password)
ConnReauthenticate(answer, resp) ==
  /\ UNCHANGED varsHass
  /\ connPc = "auth"
  /\ authCalls' = authCalls + 1
  /\ username' = username
  /\ password' = password
  /\ IF AuthenticateOk(answer)
       THEN /\ cookies' = MergeCookies(cookies, resp)
            /\ connPc' = "retry"
            /\ connRes' = connRes
       ELSE /\ cookies' = cookies
            /\ connPc' = "done"
            /\ connRes' = HttpError(connErr)
  /\ UNCHANGED <<connOp, connErr, lastStatus, opCalls, connCalls, connAtStart>>

\* the retry: return await func(self, *args, **kwargs)
ConnRetry(answer) ==
  /\ UNCHANGED varsHass
  /\ connPc = "retry"
  /\ opCalls' = opCalls + 1
  /\ lastStatus' = answer
  /\ connPc' = AfterRetry(answer)
  /\ connRes' = IF AfterRetry(answer) = "done" THEN OpResult(answer)
                ELSE connRes
  /\ connErr' = IF answer \in {"200", ConnError} THEN connErr ELSE answer
  /\ UNCHANGED <<username, password, cookies, connOp, authCalls, connCalls,
                 connAtStart>>

\* the caller resumes with the value or the exception the wrapper gave it
ConnCallEnd ==
  /\ UNCHANGED varsHass
  /\ connPc = "done"
  /\ connPc' = "idle"
  /\ UNCHANGED <<username, password, cookies, connOp, connRes, connErr,
                 lastStatus, authCalls, opCalls, connCalls, connAtStart>>

NextConn ==
  \/ \E u \in Credentials, p \in Credentials, o \in LoginOutcomes,
        r \in ResponseCookies : Authenticate(u, p, o, r)
  \/ DiscardSession
  \/ \E op \in WrappedOps : ConnCallStart(op)
  \/ \E o \in OpOutcomes : ConnFirstAttempt(o)
  \/ \E o \in LoginOutcomes, r \in ResponseCookies : ConnReauthenticate(o, r)
  \/ \E o \in OpOutcomes : ConnRetry(o)
  \/ ConnCallEnd

\* ----------------------------------------------------- the config entry
\* the three correlation keys of entry_data
FutureKeys == {"observances_future", "pdf_future", "operation_future"}

\* the entry set up by async_setup_entry
EntryId == "e1"
\* config_entry_id values a websocket message can carry ("e2" is not set up)
ConfigEntryIds == {"e1", "e2"}

Dates == {"d1", "d2"}

\* the waiters: handle_print_next_observance, handle_send_attendance and
\* IsAroundDataUpdateCoordinator._async_update_data
Tasks == {"print", "send", "coord"}

\* requests a waiter fires through the connector
RequestKinds == {"observances", "pdf", "attendance_push", "attendance_stats"}

\* data of an observances message:
\*   "{}"        the empty dict
\*   "no_next"   no nextObservance (or a falsy one)
\*   "no_date"   nextObservance is a dict without a date
\*   "bad_next"  nextObservance is truthy but not a dict
\*   a date      nextObservance is {"date": date}
ObservancesData == {"{}", "no_next", "no_date", "bad_next"} \cup Dates

\* data of an operation_result message:
\*   "None"          no data
\*   "push_<next>"   initiatedCount plus nextObservance {"date": d1}, absent,
\*                   or without a date
\*   "stats"         an attendance summary
OperationData == {"None", "push_d1", "push_no_next", "push_no_date", "stats"}

ErrorMessages == {"none", "boom"}

\* if data and "initiatedCount" in data
HasInitiatedCount(data) == data \in {"push_d1", "push_no_next", "push_no_date"}
\* data["initiatedCount"]
InitiatedCountOf(data) ==
  IF data = "push_d1" THEN 2 ELSE IF data = "push_no_date" THEN 1 ELSE 0
\* next_observance = data.get("nextObservance") is truthy
HasNextObservance(data) == data \in {"push_d1", "push_no_date"}
\* next_observance.get("date"), "None" when there is none
PushDate(data) == IF data = "push_d1" THEN "d1" ELSE "None"
\* if data and "summary" in data
HasSummary(data) == data = "stats"

\* an asyncio.Future(): created pending, with no result
NewFuture(key) == [key |-> key, state |-> "pending", value |-> "", sets |-> 0]

\* a waiter that has not created a future yet
NoFuture == [key |-> "none", state |-> "none", value |-> "", sets |-> 0]

\* future.done()
Done(f) == futures[f].state # "pending"

\* entry_data[key], when the key is there
InSlot(key) == slot[key] # "none" /\ futures[slot[key]].key = key

\* "<key> in entry_data and not entry_data[<key>].done()"
ShouldComplete_NoDoneCheck(key) == InSlot(key)
ShouldComplete(key) == InSlot(key) /\ ~Done(slot[key])

\* future.set_result(value) / future.set_exception(Exception(value))
Complete(fs, f, st, value) ==
  [fs EXCEPT ![f] = [@ EXCEPT !.state = st, !.value = value,
                               !.sets = @ + 1]]

\* entry_data[key] = asyncio.Future(): the new future takes the slot, whatever
\* was in it
Install_KeepExisting(sl, key, f) ==
  IF sl[key] = "none" THEN [sl EXCEPT ![key] = f] ELSE sl
Install(sl, key, f) == [sl EXCEPT ![key] = f]

\* entry_data.pop(key, None): the key goes, whoever's future it held
Pop(sl, key, f) == [sl EXCEPT ![key] = "none"]

\* a buffer of entry_data["pdf_chunks"]; chunks is the dict in insertion order
NoBuffer == [present |-> FALSE, chunks |-> <<>>, total |-> 0]

PdfRequestIds == {"r1", "r2"}

NoReassembly == [log |-> <<>>, total |-> 0, string |-> "", future |-> "none"]

\* the kinds of update_state data, in the order the handler tests for them
Kinds == <<"weekly_schedule", "lessons", "memorials", "messages">>
KindSet == {Kinds[i] : i \in 1 .. Len(Kinds)}

\* a cached {"state": ..., "attributes": ...}; NoValue: the key is not there
NoValue == [state |-> "absent", attributes |-> "absent"]
EmptyCache == [k \in KindSet |-> NoValue]

\* what a sensor shows from its construction until its first _update_data
InitialSensor(kind) ==
  IF kind = "messages" THEN [state |-> "0", attributes |-> "no_messages"]
  ELSE [state |-> "None", attributes |-> "{}"]
InitialSensors == [k \in KindSet |-> InitialSensor(k)]

\* the three websocket commands
WsCommands == {"update_state", "pdf_chunk", "operation_result"}

\* the keys of hass.data[DOMAIN] that hold the cached scalars of the entry
CountKey == "e1_initiated_count"
DateKey == "e1_next_observance_date"

\* the keys of hass.data[DOMAIN]
DomainKeys ==
  {e \in ConfigEntryIds : entryState[e] # "unloaded"}
  \cup (IF initiated_count # -1 THEN {CountKey} ELSE {})
  \cup (IF next_observance_date # "None" THEN {DateKey} ELSE {})

\* isinstance(hass.data[DOMAIN][key], dict)
IsDictValue(key) == key \in ConfigEntryIds

\* the two checks at the head of handle_pdf_chunk and handle_operation_result
EntryCheck_NotFoundOnly(id) ==
  IF id \notin DomainKeys \/ ~IsDictValue(id) THEN "not_found" ELSE "ok"
EntryCheck(id) ==
  IF id \notin DomainKeys THEN "not_found"
  ELSE IF ~IsDictValue(id) THEN "invalid_entry"
  ELSE "ok"

\* a handler that raises gets its error reply from websocket_api.async_response
HostErrorReply == <<"unknown_error">>

InitState ==
  /\ entryState = [e \in ConfigEntryIds |->
                     IF e = EntryId THEN "loaded" ELSE "unloaded"]
  /\ cache = [e \in ConfigEntryIds |-> EmptyCache]
  /\ sensors = [e \in ConfigEntryIds |-> InitialSensors]
  /\ registrations = [c \in WsCommands |-> 1]
  /\ reply = <<>>
  /\ testOutcome = <<"none", "none">>
  /\ stateMsgs = 0
  /\ inbox = <<>>

\* the entity registry entries the printer choice can meet
RegistryEntry(entity_id, device_id, platform) ==
  [entity_id |-> entity_id, device_id |-> device_id, platform |-> platform]
EntityRegistries ==
  {<<>>,
   <<RegistryEntry("sensor.dev1_toner", "dev1", "ipp")>>,
   <<RegistryEntry("sensor.dev2_printer", "dev2", "ipp_printer_service")>>,
   <<RegistryEntry("sensor.dev1_b", "dev1", "ipp_printer_service"),
     RegistryEntry("sensor.dev1_a", "dev1", "ipp_printer_service")>>,
   <<RegistryEntry("sensor.dev2_printer", "dev2", "ipp_printer_service"),
     RegistryEntry("sensor.dev1_toner", "dev1", "ipp"),
     RegistryEntry("sensor.dev1_a", "dev1", "ipp_printer_service"),
     RegistryEntry("sensor.dev1_b", "dev1", "ipp_printer_service")>>}

\* what handle_print_next_observance reads to choose the printer entity:
\* call.data["printer_entity"], entry.data[CONF_PRINTER_DEVICE], whether the
\* device registry knows that device, the entity registry in its order, and
\* entry.data[CONF_PRINTER_ENTITY] ("none": absent or empty)
PrintRequests ==
  {r \in [printer_entity : {"none", "sensor.override"},
          device_id : {"none", "dev1"},
          device_known : BOOLEAN,
          registry : EntityRegistries,
          legacy : {"none", "sensor.legacy"}] :
     \* the entity registry links entities to registered devices only
     r.device_known \/ \A i \in 1..Len(r.registry) :
                         r.registry[i].device_id # "dev1"}

NoRequest == <<>>

InitService ==
  /\ tmp_files = 0
  /\ last_invoked = 0
  /\ printCall = "none"
  /\ printRequest = NoRequest
  /\ refreshRequests = 0

InitHass ==
  /\ InitState
  /\ InitService
  /\ futures = [t \in Tasks |-> NoFuture]
  /\ slot = [k \in FutureKeys |-> "none"]
  /\ observances_data = "None"
  /\ pdf_chunks = [r \in PdfRequestIds |-> NoBuffer]
  /\ pdfLog = [r \in PdfRequestIds |-> <<>>]
  /\ pdfDone = NoReassembly
  /\ next_observance_date \in {"None", "d1"}
  /\ initiated_count = IF next_observance_date = "None" THEN -1 ELSE 2
  /\ stored = IF next_observance_date = "None" THEN <<>>
              ELSE <<2, next_observance_date>>
  /\ sensorCount = initiated_count
  /\ sensorNextDate = next_observance_date
  /\ coordData = "None"
  /\ saving = <<>>
  /\ pc = [t \in Tasks |-> "idle"]
  /\ date = [t \in Tasks |-> "None"]
  /\ outcome = [t \in Tasks |-> <<"none", "none">>]
  /\ fired = [t \in Tasks |-> [k \in RequestKinds |-> 0]]
  /\ calls = 0

\* -------------------------------------------------- websocket handlers

\* handle_update_state, format 3: config_entry_id plus data with no entity_id.
\* The data is stored and given to a pending observances_future.
StoreObservances(eid, data) ==
  /\ eid \in DomainKeys /\ IsDictValue(eid) => eid = EntryId
  /\ reply' = <<"result">>
  /\ IF eid \in DomainKeys /\ IsDictValue(eid)
       THEN /\ observances_data' = data
            /\ futures' = IF ShouldComplete("observances_future")
                            THEN Complete(futures, slot["observances_future"],
                                          "result", data)
                            ELSE futures
       ELSE UNCHANGED <<observances_data, futures>>
  /\ UNCHANGED <<slot, pdf_chunks, pdfLog, pdfDone, next_observance_date,
                 initiated_count, stored, sensorCount, sensorNextDate,
                 coordData, saving, varsTask, varsConn, varsService>>

HandleUpdateStateObservances(eid, data) ==
  /\ StoreObservances(eid, data)
  /\ UNCHANGED varsState

\* position of chunk_index in the chunks dict, 0 when it is not a key
RECURSIVE ChunkPos(_, _, _)
ChunkPos(chunks, idx, p) ==
  IF p > Len(chunks) THEN 0
  ELSE IF chunks[p][1] = idx THEN p
  ELSE ChunkPos(chunks, idx, p + 1)

\* chunks[chunk_index] = chunk_data: a key already there keeps its place and
\* gets the new value, a new key goes last
StoreChunk_AlwaysAppend(chunks, idx, data) == Append(chunks, <<idx, data>>)
StoreChunk(chunks, idx, data) ==
  IF ChunkPos(chunks, idx, 1) # 0
    THEN [chunks EXCEPT ![ChunkPos(chunks, idx, 1)] = <<idx, data>>]
    ELSE Append(chunks, <<idx, data>>)

\* received_chunks == total_chunks, with the total of the message in hand
ReceivedAll(chunks, total) == Len(chunks) = total

\* chunks_dict[i] raises KeyError for an i in range(total_chunks) never stored
HasAllIndexes(chunks, total) ==
  \A i \in 0 .. (total - 1) : ChunkPos(chunks, i, 1) # 0

\* "".join(chunk.values()): the payloads in dict order
RECURSIVE JoinValues(_, _)
JoinValues(chunks, p) ==
  IF p > Len(chunks) THEN ""
  ELSE chunks[p][2] \o JoinValues(chunks, p + 1)

\* "".join([chunks_dict[i] for i in range(total_chunks)])
RECURSIVE JoinRange(_, _, _)
JoinRange(chunks, i, total) ==
  IF i >= total THEN ""
  ELSE chunks[ChunkPos(chunks, i, 1)][2] \o JoinRange(chunks, i + 1, total)

Reassemble_ArrivalOrder(chunks, total) == JoinValues(chunks, 1)
Reassemble(chunks, total) == JoinRange(chunks, 0, total)

\* chunk messages the model still remembers: the buffered ones and those of
\* the latest reassembly
ChunkMsgsKept ==
  Len(pdfDone.log) + Len(pdfLog["r1"]) + Len(pdfLog["r2"])

\* handle_pdf_chunk
HandlePdfChunk(eid, rid, idx, total, data) ==
  /\ EntryCheck(eid) = "ok" => eid = EntryId /\ ChunkMsgsKept < MaxChunkMsgs
  /\ IF EntryCheck(eid) # "ok"
       THEN \* send_error not_found / invalid_entry, and return
            /\ reply' = <<EntryCheck(eid)>>
            /\ UNCHANGED <<pdf_chunks, pdfLog, pdfDone, futures>>
       ELSE LET buf == IF pdf_chunks[rid].present THEN pdf_chunks[rid]
                       ELSE [present |-> TRUE, chunks |-> <<>>,
                             total |-> total]
                chunks == StoreChunk(buf.chunks, idx, data)
                log == Append(pdfLog[rid], <<idx, total, data>>)
            IN IF ReceivedAll(chunks, total) /\ HasAllIndexes(chunks, total)
                 THEN \* reassemble, complete the future, drop the buffer
                      /\ futures' = IF ShouldComplete("pdf_future")
                                      THEN Complete(futures, slot["pdf_future"],
                                             "result", Reassemble(chunks, total))
                                      ELSE futures
                      /\ pdfDone' = [log |-> log, total |-> total,
                                     string |-> Reassemble(chunks, total),
                                     future |-> IF ShouldComplete("pdf_future")
                                                  THEN slot["pdf_future"] ELSE "none"]
                      /\ pdf_chunks' = [pdf_chunks EXCEPT ![rid] = NoBuffer]
                      /\ pdfLog' = [pdfLog EXCEPT ![rid] = <<>>]
                      /\ reply' = <<"result">>
                 ELSE \* still incomplete, or KeyError in the reassembly: the
                      \* chunk stays stored and nothing else happens
                      /\ pdf_chunks' = [pdf_chunks EXCEPT
                                          ![rid] = [buf EXCEPT !.chunks = chunks]]
                      /\ pdfLog' = [pdfLog EXCEPT ![rid] = log]
                      /\ reply' = IF ReceivedAll(chunks, total)
                                    THEN HostErrorReply ELSE <<"result">>
                      /\ UNCHANGED <<pdfDone, futures>>
  /\ UNCHANGED <<slot, observances_data, next_observance_date,
                 initiated_count, stored, sensorCount, sensorNextDate,
                 coordData, saving, varsTask, varsConn, varsService, varsState>>

\* handle_operation_result, from "Update sensors" to the end: the dispatcher
\* signals, the coordinator data and the waiting future
OperationResultFinish(msg) ==
  /\ sensorCount' = IF HasInitiatedCount(msg.data)
                      THEN InitiatedCountOf(msg.data) ELSE sensorCount
  /\ sensorNextDate' = IF HasInitiatedCount(msg.data)
                          /\ HasNextObservance(msg.data)
                         THEN PushDate(msg.data) ELSE sensorNextDate
  /\ coordData' = IF HasSummary(msg.data) THEN msg.data ELSE coordData
  /\ futures' =
       IF ShouldComplete("operation_future")
         THEN IF msg.success
                THEN Complete(futures, slot["operation_future"], "result",
                              msg.data)
                ELSE Complete(futures, slot["operation_future"], "exception",
                              IF msg.error_message # "none"
                                THEN msg.error_message ELSE "Operation failed")
         ELSE futures
  /\ reply' = <<"result">>

\* handle_operation_result up to its only await (store.async_save), and to
\* the end when it does not save
HandleOperationResult(msg) ==
  /\ saving = <<>>
  /\ EntryCheck(msg.config_entry_id) = "ok" => msg.config_entry_id = EntryId
  /\ IF EntryCheck(msg.config_entry_id) # "ok"
       THEN \* send_error not_found / invalid_entry, and return
            /\ reply' = <<EntryCheck(msg.config_entry_id)>>
            /\ UNCHANGED <<initiated_count, next_observance_date, saving,
                           sensorCount, sensorNextDate, coordData, futures>>
       ELSE /\ initiated_count' = IF HasInitiatedCount(msg.data)
                                    THEN InitiatedCountOf(msg.data)
                                    ELSE initiated_count
            /\ IF HasInitiatedCount(msg.data) /\ PushDate(msg.data) # "None"
                 THEN /\ next_observance_date' = PushDate(msg.data)
                      /\ saving' = <<msg>>
                      /\ reply' = <<>>
                      /\ UNCHANGED <<sensorCount, sensorNextDate, coordData,
                                     futures>>
                 ELSE /\ UNCHANGED <<next_observance_date, saving>>
                      /\ OperationResultFinish(msg)
  /\ UNCHANGED <<slot, observances_data, pdf_chunks, pdfLog, pdfDone, stored,
                 varsTask, varsConn, varsService, varsState>>

\* store.async_save returned: the rest of handle_operation_result
OperationResultSaved ==
  /\ saving # <<>>
  /\ stored' = <<InitiatedCountOf(saving[1].data), PushDate(saving[1].data)>>
  /\ saving' = <<>>
  /\ OperationResultFinish(saving[1])
  /\ UNCHANGED <<slot, observances_data, pdf_chunks, pdfLog, pdfDone,
                 next_observance_date, initiated_count, varsTask, varsConn, varsService, varsState>>

OperationResults ==
  [config_entry_id : ConfigEntryIds, success : BOOLEAN,
   error_message : ErrorMessages, data : OperationData]

\* ------------------------------------- update_state with an entity_id

\* entity ids and the kind words each contains ("<word>" in entity_id)
EntityIds ==
  {"sensor.weekly_schedule", "sensor.lessons", "sensor.memorials",
   "sensor.messages", "sensor.lessons_weekly_schedule", "sensor.other"}

Mentions(entity_id) ==
  CASE entity_id = "sensor.weekly_schedule" -> {"weekly_schedule"}
    [] entity_id = "sensor.lessons" -> {"lessons"}
    [] entity_id = "sensor.memorials" -> {"memorials"}
    [] entity_id = "sensor.messages" -> {"messages"}
    [] entity_id = "sensor.lessons_weekly_schedule"
         -> {"lessons", "weekly_schedule"}
    [] OTHER -> {}

\* the if / elif chain over the kinds: the first kind the entity_id mentions,
\* "none" when it mentions none
RECURSIVE FirstMatch(_, _)
FirstMatch(words, i) ==
  IF i > Len(Kinds) THEN "none"
  ELSE IF Kinds[i] \in words THEN Kinds[i]
  ELSE FirstMatch(words, i + 1)

KindOf_LastMatch(entity_id) ==
  IF "messages" \in Mentions(entity_id) THEN "messages"
  ELSE IF "memorials" \in Mentions(entity_id) THEN "memorials"
  ELSE IF "lessons" \in Mentions(entity_id) THEN "lessons"
  ELSE IF "weekly_schedule" \in Mentions(entity_id) THEN "weekly_schedule"
  ELSE "none"
KindOf(entity_id) == FirstMatch(Mentions(entity_id), 1)

\* an update_state message.  data is "absent", "entity" (a dict holding
\* entity_id, state and attributes) or observances data; top says whether
\* entity_id, state and attributes are at the top level.  entity_id, state and
\* attributes are those of the place the handler reads them from.
UpdateStateMsgs ==
  [config_entry_id : ConfigEntryIds \cup {CountKey, "absent"},
   data : {"absent", "entity", "d1", "no_next"},
   top : BOOLEAN,
   entity_id : EntityIds,
   state : {"absent", "s1", "s2"},
   attributes : {"absent", "a1"}]

\* the messages with an entity_id that SpecState sends: the new format naming
\* an entry, a stale entry or a key that holds no dict, and the legacy format;
\* without a state, with state and attributes, or with a state only
StateMsgs ==
  {m \in UpdateStateMsgs :
     /\ \/ m.config_entry_id # "absent" /\ m.data = "entity" /\ ~m.top
        \/ m.config_entry_id = "absent" /\ m.data = "absent" /\ m.top
     /\ <<m.state, m.attributes>> \in
          {<<"absent", "a1">>, <<"s1", "a1">>, <<"s2", "absent">>}}

\* the messages with config_entry_id and observances data that SpecData
\* sends, with or without an entity_id at the top level beside them
DataMsgs ==
  {m \in UpdateStateMsgs :
     /\ m.config_entry_id # "absent"
     /\ m.data \in {"d1", "no_next"}
     /\ IF m.top
          THEN /\ m.entity_id = "sensor.lessons"
               /\ <<m.state, m.attributes>> \in
                    {<<"absent", "absent">>, <<"s1", "a1">>}
          ELSE /\ m.entity_id = "sensor.other"
               /\ <<m.state, m.attributes>> = <<"absent", "absent">>}

\* which branch of handle_update_state takes the message (0: none)
Format_DataFirst(msg) ==
  IF msg.config_entry_id # "absent" /\ msg.data = "entity" THEN 1
  ELSE IF msg.config_entry_id # "absent" /\ msg.data # "absent" THEN 3
  ELSE IF msg.top THEN 2
  ELSE 0
Format(msg) ==
  IF msg.config_entry_id # "absent" /\ msg.data = "entity" THEN 1
  ELSE IF msg.top THEN 2
  ELSE IF msg.config_entry_id # "absent" /\ msg.data # "absent" THEN 3
  ELSE 0

\* {"state": state, "attributes": attributes}; attributes default to {}
ValueOf(msg) ==
  [state |-> msg.state,
   attributes |-> IF msg.attributes = "absent" THEN "{}" ELSE msg.attributes]

\* the entries whose cache the message is written to: the named entry in the
\* new format, every dict-valued item of hass.data[DOMAIN] in the legacy one
Targets_NamedOrFirst(msg) ==
  IF Format(msg) = 1
    THEN {k \in DomainKeys : k = msg.config_entry_id /\ IsDictValue(k)}
    ELSE {k \in DomainKeys : k = EntryId}
Targets(msg) ==
  IF Format(msg) = 1
    THEN {k \in DomainKeys : k = msg.config_entry_id /\ IsDictValue(k)}
    ELSE {k \in DomainKeys : IsDictValue(k)}

\* async_dispatcher_send(<signal of the entry and kind>, state, attributes):
\* the sensor is connected to its signal once it was added to hass
Connected(e) == entryState[e] = "loaded"

\* an update_state message arrives: websocket_api.async_response creates the
\* task that runs handle_update_state with it
ReceiveUpdateState(msg) ==
  /\ inbox = <<>>
  /\ stateMsgs < MaxStateMsgs
  /\ inbox' = <<msg>>
  /\ stateMsgs' = stateMsgs + 1
  /\ UNCHANGED <<entryState, cache, sensors, registrations, testOutcome,
                 reply, varsFut, varsEntry, varsTask, varsConn, varsService>>

\* handle_update_state for the two formats that carry an entity_id
HandleUpdateStateEntity ==
  /\ inbox # <<>>
  /\ Format(inbox[1]) \in {1, 2}
  /\ inbox' = <<>>
  /\ LET msg == inbox[1]
         kind == KindOf(msg.entity_id)
         targets == IF kind = "none" THEN {} ELSE Targets(msg)
     IN  IF msg.state = "absent"
           THEN \* msg["data"]["state"] / msg["state"] raises KeyError
                /\ reply' = HostErrorReply
                /\ UNCHANGED <<cache, sensors>>
           ELSE /\ reply' = <<"result">>
                /\ cache' = [e \in ConfigEntryIds |->
                     IF e \in targets
                       THEN [cache[e] EXCEPT ![kind] = ValueOf(msg)]
                       ELSE cache[e]]
                /\ sensors' = [e \in ConfigEntryIds |->
                     IF e \in targets /\ Connected(e)
                       THEN [sensors[e] EXCEPT ![kind] = ValueOf(msg)]
                       ELSE sensors[e]]
  /\ UNCHANGED <<entryState, registrations, testOutcome, stateMsgs, varsFut,
                 varsEntry, varsTask, varsConn, varsService>>

\* handle_update_state for config_entry_id and data without an entity_id
HandleUpdateStateData ==
  /\ inbox # <<>>
  /\ Format(inbox[1]) = 3
  /\ inbox' = <<>>
  /\ StoreObservances(inbox[1].config_entry_id, inbox[1].data)
  /\ UNCHANGED <<entryState, cache, sensors, registrations, testOutcome,
                 stateMsgs>>

\* ------------------------------------------- set-up and unload of an entry

\* async_setup_entry up to "await store.async_load()": the entry's dict is in
\* hass.data[DOMAIN]
SetupEntryStart(e) ==
  /\ entryState[e] = "unloaded"
  /\ registrations["update_state"] < MaxSetups
  /\ entryState' = [entryState EXCEPT ![e] = "loading"]
  /\ cache' = [cache EXCEPT ![e] = EmptyCache]
  /\ UNCHANGED <<sensors, registrations, testOutcome, stateMsgs, inbox, reply, varsFut,
                 varsEntry, varsTask, varsConn, varsService>>

\* async_added_to_hass of the four sensors: connect to the signal, then show
\* the cached value when there is one
Restore_Never(e, kind) == InitialSensor(kind)
Restore(e, kind) ==
  IF cache[e][kind] # NoValue THEN cache[e][kind] ELSE InitialSensor(kind)

\* the rest of async_setup_entry: the services and the three websocket
\* commands are registered, then the sensor platform is set up
SetupEntryFinish(e) ==
  /\ entryState[e] = "loading"
  /\ entryState' = [entryState EXCEPT ![e] = "loaded"]
  /\ registrations' = [c \in WsCommands |-> registrations[c] + 1]
  /\ sensors' = [sensors EXCEPT ![e] = [k \in KindSet |-> Restore(e, k)]]
  /\ UNCHANGED <<cache, testOutcome, stateMsgs, inbox, reply, varsFut, varsEntry, varsTask,
                 varsConn, varsService>>

\* async_unload_entry: the platforms are unloaded and the entry's dict is
\* popped
UnloadEntry(e) ==
  /\ e # EntryId
  /\ entryState[e] = "loaded"
  /\ entryState' = [entryState EXCEPT ![e] = "unloaded"]
  /\ cache' = [cache EXCEPT ![e] = EmptyCache]
  /\ sensors' = [sensors EXCEPT ![e] = InitialSensors]
  /\ UNCHANGED <<registrations, testOutcome, stateMsgs, inbox, reply, varsFut, varsEntry,
                 varsTask, varsConn, varsService>>

\* ---------------------------------------------------------- the waiters

\* asyncio.wait_for(future, timeout=RESPONSE_TIMEOUT): the timer can expire
\* for as long as the future is pending
TimerFires_NoTimeout(f) == FALSE
TimerFires(f) == futures[f].state = "pending"

\* the future waited for got a result / an exception and the waiter resumes
GotResult(t) == futures[t].state = "result"
GotException(t) == futures[t].state = "exception"

\* on expiry wait_for cancels the future it was waiting for
Cancel(fs, f) == [fs EXCEPT ![f] = [@ EXCEPT !.state = "cancelled"]]

\* what the handlers make of the observances data they were given
\*   "no_data"  not observances_data
\*   "no_next"  not observances_data.get("nextObservance")
\*   "raise"    nextObservance has no .get: AttributeError
\*   "no_date"  not next_observance.get("date")
\*   "ok"       a next observance with a date
ObservancesVerdict_DateNotChecked(data) ==
  IF data \in {"None", "{}"} THEN "no_data"
  ELSE IF data = "no_next" THEN "no_next"
  ELSE IF data = "bad_next" THEN "raise"
  ELSE "ok"
ObservancesVerdict(data) ==
  IF data \in {"None", "{}"} THEN "no_data"
  ELSE IF data = "no_next" THEN "no_next"
  ELSE IF data = "bad_next" THEN "raise"
  ELSE IF data = "no_date" THEN "no_date"
  ELSE "ok"

\* a handler is entered: its per-call bookkeeping starts afresh
CanStart(t) == pc[t] \in {"idle", "done"} /\ calls < MaxCalls

\* connector.request_<kind>(...): the call fires one request
Fire_Twice(f, t, kind) == [f EXCEPT ![t][kind] = @ + 2]
Fire(f, t, kind) == [f EXCEPT ![t][kind] = @ + 1]

\* entry_data[key] = asyncio.Future(); connector.request_<kind>(...)
\* by waiter t, which then waits at newpc; popKey is the key the same step
\* popped before ("none": no pop)
FireAndWait(t, popKey, key, kind, newpc) ==
  /\ futures' = [futures EXCEPT ![t] = NewFuture(key)]
  /\ slot' = Install(IF popKey = "none" THEN slot ELSE Pop(slot, popKey, t),
                     key, t)
  /\ fired' = Fire(fired, t, kind)
  /\ pc' = [pc EXCEPT ![t] = newpc]

\* the handler ends; key is the slot its finally clause pops
Finish(t, key, result, cause) ==
  /\ slot' = Pop(slot, key, t)
  /\ pc' = [pc EXCEPT ![t] = "done"]
  /\ outcome' = [outcome EXCEPT ![t] = <<result, cause>>]
  /\ UNCHANGED fired

\* connector.async_get_observances(), entered by a service handler: fire the
\* observances request and wait for the answer
GetObservancesStart(t) ==
  /\ t \in {"print", "send"}
  /\ CanStart(t)
  /\ calls' = calls + 1
  /\ futures' = [futures EXCEPT ![t] = NewFuture("observances_future")]
  /\ slot' = Install(slot, "observances_future", t)
  /\ fired' = [fired EXCEPT ![t] = [k \in RequestKinds |->
                                      IF k = "observances" THEN 1 ELSE 0]]
  /\ pc' = [pc EXCEPT ![t] = "wait_obs"]
  /\ date' = [date EXCEPT ![t] = "None"]
  /\ outcome' = [outcome EXCEPT ![t] = <<"none", "none">>]
  /\ IF t = "print"
       THEN /\ printCall' = "none"
            /\ printRequest' = NoRequest
            /\ UNCHANGED refreshRequests
       ELSE /\ refreshRequests' = 0
            /\ UNCHANGED <<printCall, printRequest>>
  /\ UNCHANGED <<tmp_files, last_invoked, varsEntry, varsConn, varsState,
                 reply>>

\* how a service handler ends for each cause: the early returns of the
\* expected failures, and "except Exception: _LOGGER.exception(...); raise"
\* for whatever is raised inside the try
HandlerResult_Swallow(cause) == "returned"
HandlerResult(cause) ==
  IF cause \in {"raise", "operation_failed", "print_failed", "test_error"}
    THEN "raised"
  ELSE "returned"

\* handle_print_next_observance from the observances data to the PDF request
PrintAfterObservances(data) ==
  IF ObservancesVerdict(data) = "ok"
    THEN /\ FireAndWait("print", "observances_future", "pdf_future", "pdf",
                        "wait_pdf")
         /\ date' = [date EXCEPT !["print"] = data]
         /\ UNCHANGED outcome
    ELSE /\ Finish("print", "observances_future",
                   HandlerResult(ObservancesVerdict(data)),
                   ObservancesVerdict(data))
         /\ UNCHANGED <<futures, date>>

PrintGotObservances ==
  /\ pc["print"] = "wait_obs"
  /\ GotResult("print")
  /\ PrintAfterObservances(futures["print"].value)
  /\ UNCHANGED <<calls, varsEntry, varsConn, varsService, varsState, reply>>

\* async_get_observances gave up waiting and returned None
PrintObservancesTimeout ==
  /\ pc["print"] = "wait_obs"
  /\ TimerFires("print")
  /\ futures' = Cancel(futures, "print")
  /\ Finish("print", "observances_future", HandlerResult("no_data"),
            "no_data")
  /\ UNCHANGED <<date, calls, varsEntry, varsConn, varsService, varsState, reply>>

\* the printer entity the handler settles on ("none": no entity found)
PrinterEntities == {"none", "sensor.printer"}

\* the first entity of the device on the ipp_printer_service platform, in the
\* order of the entity registry, from position i on ("none": there is none)
RECURSIVE FirstIppEntity(_, _, _)
FirstIppEntity(registry, device_id, i) ==
  IF i > Len(registry) THEN "none"
  ELSE IF /\ registry[i].device_id = device_id
          /\ registry[i].platform = "ipp_printer_service"
         THEN registry[i].entity_id
  ELSE FirstIppEntity(registry, device_id, i + 1)

\* the entity of the device: only a configured device that the device
\* registry knows is searched for
DeviceEntity(req) ==
  IF req.device_id # "none" /\ req.device_known
    THEN FirstIppEntity(req.registry, req.device_id, 1)
  ELSE "none"

\* the entity_id handed to the print service ("none": no entity found)
ChoosePrinter_LegacyFirst(req) ==
  IF req.printer_entity # "none" THEN req.printer_entity
  ELSE IF req.legacy # "none" THEN req.legacy
  ELSE DeviceEntity(req)
ChoosePrinter(req) ==
  IF req.printer_entity # "none" THEN req.printer_entity
  ELSE IF DeviceEntity(req) # "none" THEN DeviceEntity(req)
  ELSE req.legacy

\* "finally: if tmp_path.exists(): tmp_path.unlink()"
Unlink_Keep(files) == files
Unlink(files) == IF files > 0 THEN files - 1 ELSE files

\* the PDF arrived: decode, write the temporary file, pick the printer and
\* call the print service
PrintChoosePrinter(req) ==
  /\ pc["print"] = "wait_pdf"
  /\ GotResult("print")
  /\ printRequest' = <<req>>
  /\ printCall' = ChoosePrinter(req)
  /\ IF ChoosePrinter(req) = "none"
       THEN /\ Finish("print", "pdf_future", HandlerResult("no_printer"),
                      "no_printer")
            /\ tmp_files' = Unlink(tmp_files + 1)
       ELSE /\ slot' = Pop(slot, "pdf_future", "print")
            /\ pc' = [pc EXCEPT !["print"] = "printing"]
            /\ tmp_files' = tmp_files + 1
            /\ UNCHANGED <<outcome, fired>>
  /\ UNCHANGED <<futures, date, calls, last_invoked, refreshRequests,
                 varsEntry, varsConn, varsState, reply>>

\* a call that names the printer in its printer_entity, or names none, for
\* an entry with no printer configured
OverrideRequest(entity) ==
  [printer_entity |-> entity, device_id |-> "none", device_known |-> FALSE,
   registry |-> <<>>, legacy |-> "none"]

PrintGotPdf(entity) == PrintChoosePrinter(OverrideRequest(entity))

PrintPdfTimeout ==
  /\ pc["print"] = "wait_pdf"
  /\ TimerFires("print")
  /\ futures' = Cancel(futures, "print")
  /\ Finish("print", "pdf_future", HandlerResult("timeout"), "timeout")
  /\ UNCHANGED <<date, calls, varsEntry, varsConn, varsService, varsState, reply>>

\* hass.services.async_call(..., blocking=True) returned or raised
\* the value of the Last Invoked sensor after the print call: the signal
\* follows the call, and _update_timestamp takes its time stamp
LastInvokedAfter_Always(ok, old, now) == now
LastInvokedAfter(ok, old, now) == IF ok THEN now ELSE old

PrintServiceReturned(ok) ==
  /\ pc["print"] = "printing"
  /\ pc' = [pc EXCEPT !["print"] = "done"]
  /\ outcome' = [outcome EXCEPT !["print"] =
                   IF ok THEN <<HandlerResult("printed"), "printed">>
                   ELSE <<HandlerResult("print_failed"), "print_failed">>]
  /\ last_invoked' = LastInvokedAfter(ok, last_invoked, calls)
  /\ tmp_files' = Unlink(tmp_files)
  /\ UNCHANGED <<futures, slot, fired, date, calls, printCall, printRequest,
                 refreshRequests, varsEntry, varsConn, varsState, reply>>

\* handle_send_attendance from the observances data to the push request
SendAfterObservances(data) ==
  IF ObservancesVerdict(data) = "ok"
    THEN /\ FireAndWait("send", "observances_future", "operation_future",
                        "attendance_push", "wait_op")
         /\ date' = [date EXCEPT !["send"] = data]
         /\ UNCHANGED outcome
    ELSE /\ Finish("send", "observances_future",
                   HandlerResult(ObservancesVerdict(data)),
                   IF ObservancesVerdict(data) = "no_date" THEN "no_next"
                   ELSE ObservancesVerdict(data))
         /\ UNCHANGED <<futures, date>>

SendGotObservances ==
  /\ pc["send"] = "wait_obs"
  /\ GotResult("send")
  /\ SendAfterObservances(futures["send"].value)
  /\ UNCHANGED <<calls, varsEntry, varsConn, varsService, varsState, reply>>

SendObservancesTimeout ==
  /\ pc["send"] = "wait_obs"
  /\ TimerFires("send")
  /\ futures' = Cancel(futures, "send")
  /\ Finish("send", "observances_future", HandlerResult("no_data"),
            "no_data")
  /\ UNCHANGED <<date, calls, varsEntry, varsConn, varsService, varsState, reply>>

\* the push was answered: success goes on to the coordinator refresh, a
\* failure is logged and re-raised
\* "await coordinator.async_request_refresh()" is reached only past the wait
RefreshAfter(got) == IF got THEN 1 ELSE 0

SendGotResponse ==
  /\ pc["send"] = "wait_op"
  /\ GotResult("send") \/ GotException("send")
  /\ Finish("send", "operation_future",
            HandlerResult(IF GotResult("send") THEN "pushed"
                          ELSE "operation_failed"),
            IF GotResult("send") THEN "pushed" ELSE "operation_failed")
  /\ refreshRequests' = refreshRequests + RefreshAfter(GotResult("send"))
  /\ UNCHANGED <<futures, date, calls, tmp_files, last_invoked, printCall,
                 printRequest, varsEntry, varsConn, varsState, reply>>

SendResponseTimeout ==
  /\ pc["send"] = "wait_op"
  /\ TimerFires("send")
  /\ futures' = Cancel(futures, "send")
  /\ Finish("send", "operation_future", HandlerResult("timeout"), "timeout")
  /\ UNCHANGED <<date, calls, varsEntry, varsConn, varsService, varsState, reply>>

\* what the try block of handle_test_connection meets: the server answers
\* the probe, does not answer it, or something in the block raises
TestAnswers == {"test_ok", "test_failed", "test_error"}

\* handle_test_connection: both answers of test_connection() are only logged
TestConnection(answer) ==
  /\ calls < MaxCalls
  /\ calls' = calls + 1
  /\ testOutcome' = <<HandlerResult(answer), answer>>
  /\ UNCHANGED <<entryState, cache, sensors, registrations, stateMsgs, inbox,
                 reply, varsFut, varsEntry, pc, date, outcome, fired,
                 varsConn, varsService>>

\* what _async_update_data gives the coordinator for each way it can end:
\* the inner "except asyncio.TimeoutError" returns None, the outer
\* "except Exception" raises UpdateFailed
CoordResult_TimeoutFails(cause) ==
  IF cause \in {"AttributeError", "operation_failed", "timeout_observances",
                "timeout_stats"}
    THEN "UpdateFailed"
  ELSE IF cause = "stats" THEN "returned" ELSE "None"
CoordResult(cause) ==
  IF cause \in {"AttributeError", "operation_failed"} THEN "UpdateFailed"
  ELSE IF cause = "stats" THEN "returned"
  ELSE "None"

\* the observance is no longer the tracked one: not observances_data, no
\* nextObservance, or another date
ObservanceChanged_IgnoreDate(data, tracked) ==
  ObservancesVerdict(data) \in {"no_data", "no_next"}
ObservanceChanged(data, tracked) ==
  \/ ObservancesVerdict(data) \in {"no_data", "no_next"}
  \/ /\ ObservancesVerdict(data) \in {"no_date", "ok"}
     /\ (IF data \in Dates THEN data ELSE "None") # tracked

\* "if not next_observance_date" is false: there is a date to track
Tracking_Always(d) == TRUE
Tracking(d) == d # "None"

\* _async_update_data is entered: with no date to track it returns None at
\* once, otherwise it asks for the observances
CoordStart ==
  /\ CanStart("coord")
  /\ calls' = calls + 1
  /\ date' = [date EXCEPT !["coord"] = next_observance_date]
  /\ IF ~Tracking(next_observance_date)
       THEN /\ pc' = [pc EXCEPT !["coord"] = "done"]
            /\ outcome' = [outcome EXCEPT !["coord"] =
                             <<CoordResult("no_date_tracked"),
                               "no_date_tracked">>]
            /\ futures' = [futures EXCEPT !["coord"] = NoFuture]
            /\ fired' = [fired EXCEPT !["coord"] = [k \in RequestKinds |-> 0]]
            /\ coordData' = "None"
            /\ UNCHANGED slot
       ELSE /\ futures' = [futures EXCEPT
                              !["coord"] = NewFuture("observances_future")]
            /\ slot' = Install(slot, "observances_future", "coord")
            /\ fired' = [fired EXCEPT !["coord"] =
                           [k \in RequestKinds |->
                              IF k = "observances" THEN 1 ELSE 0]]
            /\ pc' = [pc EXCEPT !["coord"] = "wait_obs"]
            /\ outcome' = [outcome EXCEPT !["coord"] = <<"none", "none">>]
            /\ UNCHANGED coordData
  /\ UNCHANGED <<observances_data, pdf_chunks, pdfLog, pdfDone,
                 next_observance_date, initiated_count, stored, sensorCount,
                 sensorNextDate, saving, varsConn, varsService, varsState, reply>>

\* the update ends: a returned value becomes coordinator.data, UpdateFailed
\* leaves it alone
CoordFinish(key, cause, value) ==
  /\ Finish("coord", key, CoordResult(cause), cause)
  /\ coordData' = IF CoordResult(cause) = "UpdateFailed" THEN coordData
                  ELSE value

\* the observances arrived: stop tracking when the observance changed,
\* otherwise ask for the attendance stats of the tracked date
CoordGotObservances ==
  /\ pc["coord"] = "wait_obs"
  /\ GotResult("coord")
  /\ LET data == futures["coord"].value
     IN IF ObservancesVerdict(data) = "raise"
          THEN /\ CoordFinish("observances_future", "AttributeError", "None")
               /\ UNCHANGED <<futures, next_observance_date>>
          ELSE IF ObservanceChanged(data, date["coord"])
            THEN /\ CoordFinish("observances_future", "changed", "None")
                 /\ next_observance_date' = "None"
                 /\ UNCHANGED futures
            ELSE /\ FireAndWait("coord", "observances_future",
                                "operation_future", "attendance_stats",
                                "wait_op")
                 /\ UNCHANGED <<outcome, coordData, next_observance_date>>
  /\ UNCHANGED <<date, calls, observances_data, pdf_chunks, pdfLog, pdfDone,
                 initiated_count, stored, sensorCount, sensorNextDate, saving,
                 varsConn, varsService, varsState, reply>>

CoordObservancesTimeout ==
  /\ pc["coord"] = "wait_obs"
  /\ TimerFires("coord")
  /\ futures' = Cancel(futures, "coord")
  /\ CoordFinish("observances_future", "timeout_observances", "None")
  /\ UNCHANGED <<date, calls, observances_data, pdf_chunks, pdfLog, pdfDone,
                 next_observance_date, initiated_count, stored, sensorCount,
                 sensorNextDate, saving, varsConn, varsService, varsState, reply>>

\* the stats request was answered: the data is returned, a failure raises
CoordGotStats ==
  /\ pc["coord"] = "wait_op"
  /\ GotResult("coord") \/ GotException("coord")
  /\ CoordFinish("operation_future",
                 IF GotResult("coord") THEN "stats" ELSE "operation_failed",
                 futures["coord"].value)
  /\ UNCHANGED <<futures, date, calls, observances_data, pdf_chunks, pdfLog,
                 pdfDone, next_observance_date, initiated_count, stored,
                 sensorCount, sensorNextDate, saving, varsConn, varsService, varsState, reply>>

CoordStatsTimeout ==
  /\ pc["coord"] = "wait_op"
  /\ TimerFires("coord")
  /\ futures' = Cancel(futures, "coord")
  /\ CoordFinish("operation_future", "timeout_stats", "None")
  /\ UNCHANGED <<date, calls, observances_data, pdf_chunks, pdfLog, pdfDone,
                 next_observance_date, initiated_count, stored, sensorCount,
                 sensorNextDate, saving, varsConn, varsService, varsState, reply>>

\* ------------------------------------------------------- specifications

\* a PDF sent as a single chunk
WholePdf == <<0, 1, "a">>

\* the answers the server gives in Spec: observances that name the tracked
\* date, or a malformed nextObservance
ObservancesAnswers == {"d1", "bad_next"}

\* a successful push or stats result, or a failure with or without a message
OperationAnswers ==
  {[config_entry_id |-> EntryId, success |-> TRUE, error_message |-> "none",
    data |-> d] : d \in {"push_d1", "stats"}}
  \cup
  {[config_entry_id |-> EntryId, success |-> FALSE, error_message |-> m,
    data |-> "None"] : m \in ErrorMessages}

\* the steps of the waiters that the event loop runs once they are ready
TaskSteps ==
  \/ PrintGotObservances
  \/ \E e \in PrinterEntities : PrintGotPdf(e)
  \/ \E ok \in BOOLEAN : PrintServiceReturned(ok)
  \/ SendGotObservances
  \/ SendGotResponse
  \/ CoordGotObservances
  \/ CoordGotStats

\* the expiries of the RESPONSE_TIMEOUT timers
Timeouts ==
  \/ PrintObservancesTimeout
  \/ PrintPdfTimeout
  \/ SendObservancesTimeout
  \/ SendResponseTimeout
  \/ CoordObservancesTimeout
  \/ CoordStatsTimeout

Next ==
  \/ \E t \in {"print", "send"} : GetObservancesStart(t)
  \/ CoordStart
  \/ TaskSteps
  \/ Timeouts
  \/ \E data \in ObservancesAnswers :
       HandleUpdateStateObservances(EntryId, data)
  \/ HandlePdfChunk(EntryId, "r1", WholePdf[1], WholePdf[2], WholePdf[3])
  \/ \E msg \in OperationAnswers : HandleOperationResult(msg)
  \/ OperationResultSaved

Init == InitConn /\ InitHass

Spec == Init /\ [][Next]_vars

\* the answers the server gives in FairSpec, when it answers: observances
\* naming the tracked date, a push or stats result, or a failure
LiveOperationAnswers ==
  {[config_entry_id |-> EntryId, success |-> TRUE, error_message |-> "none",
    data |-> d] : d \in {"push_d1", "stats"}}
  \cup
  {[config_entry_id |-> EntryId, success |-> FALSE, error_message |-> "boom",
    data |-> "None"]}

NextLive ==
  \/ \E t \in {"print", "send"} : GetObservancesStart(t)
  \/ CoordStart
  \/ TaskSteps
  \/ Timeouts
  \/ HandleUpdateStateObservances(EntryId, "d1")
  \/ HandlePdfChunk(EntryId, "r1", WholePdf[1], WholePdf[2], WholePdf[3])
  \/ \E msg \in LiveOperationAnswers : HandleOperationResult(msg)
  \/ OperationResultSaved

\* the event loop runs every ready task and fires every armed timer; the
\* server is free never to answer
FairSpec ==
  /\ Init
  /\ [][NextLive]_vars
  /\ WF_vars(TaskSteps)
  /\ WF_vars(Timeouts)
  /\ WF_vars(OperationResultSaved)

\* chunk streams of handle_pdf_chunk
ChunkIndexes == {0, 1, 2}
ChunkTotals == {2, 3}
ChunkPayloads == {"a", "b"}

\* the one print_next_observance call of SpecPdf
PrintOnce == calls = 0 /\ GetObservancesStart("print")

NextPdf ==
  \/ PrintOnce
  \/ PrintGotObservances
  \/ PrintObservancesTimeout
  \/ \E e \in PrinterEntities : PrintGotPdf(e)
  \/ PrintPdfTimeout
  \/ \E ok \in BOOLEAN : PrintServiceReturned(ok)
  \/ HandleUpdateStateObservances(EntryId, "d1")
  \/ \E i \in ChunkIndexes, n \in ChunkTotals, d \in ChunkPayloads :
       HandlePdfChunk(EntryId, "r1", i, n, d)

\* no observance is tracked: the coordinator has nothing to poll
InitPdf == Init /\ next_observance_date = "None"

SpecPdf == InitPdf /\ [][NextPdf]_vars

SpecConn == Init /\ [][NextConn]_vars

\* update_state messages with an entity_id, while entries are set up and
\* unloaded and the coordinator waits for observances that do not come
NextState ==
  \/ CoordStart
  \/ CoordObservancesTimeout
  \/ \E msg \in StateMsgs : ReceiveUpdateState(msg)
  \/ HandleUpdateStateEntity
  \/ \E e \in ConfigEntryIds : SetupEntryStart(e)
  \/ \E e \in ConfigEntryIds : SetupEntryFinish(e)
  \/ \E e \in ConfigEntryIds : UnloadEntry(e)

\* an observance is tracked: its date and count are in hass.data[DOMAIN]
\* beside the entries
InitTracked == Init /\ next_observance_date = "d1"

SpecState == InitTracked /\ [][NextState]_vars

\* the coordinator's updates, with every kind of observances data and the
\* operation results of Spec as answers
NextCoord ==
  \/ CoordStart
  \/ CoordGotObservances
  \/ CoordGotStats
  \/ CoordObservancesTimeout
  \/ CoordStatsTimeout
  \/ \E data \in ObservancesData :
       HandleUpdateStateObservances(EntryId, data)
  \/ \E msg \in OperationAnswers : HandleOperationResult(msg)
  \/ OperationResultSaved

SpecCoord == Init /\ [][NextCoord]_vars

\* the ids that websocket messages name in SpecWs: the set-up entry, an entry
\* that is not set up, and the key of the tracked count
WsIds == ConfigEntryIds \cup {CountKey}

\* operation results for the set-up entry, and a push result for the others
WsResults ==
  OperationAnswers
  \cup
  {[config_entry_id |-> id, success |-> TRUE, error_message |-> "none",
    data |-> "push_d1"] : id \in WsIds \ {EntryId}}

\* the coordinator's updates beside pdf_chunk and operation_result messages
\* that name any of WsIds
NextWs ==
  \/ CoordStart
  \/ CoordGotObservances
  \/ CoordGotStats
  \/ CoordObservancesTimeout
  \/ CoordStatsTimeout
  \/ HandleUpdateStateObservances(EntryId, "d1")
  \/ \E msg \in WsResults : HandleOperationResult(msg)
  \/ OperationResultSaved
  \/ \E id \in WsIds, i \in {0, 1} : HandlePdfChunk(id, "r1", i, 2, "a")

SpecWs == Init /\ [][NextWs]_vars

\* the answers the server gives in SpecServices: observances of every shape,
\* a successful push, or a failure without a message
ServiceObservances == {"{}", "no_next", "no_date", "bad_next", "d1"}

ServiceResults ==
  {[config_entry_id |-> EntryId, success |-> TRUE, error_message |-> "none",
    data |-> "push_d1"],
   [config_entry_id |-> EntryId, success |-> FALSE, error_message |-> "none",
    data |-> "None"]}

\* the three services beside the messages that answer them
NextServices ==
  \/ \E t \in {"print", "send"} : GetObservancesStart(t)
  \/ PrintGotObservances
  \/ \E e \in PrinterEntities : PrintGotPdf(e)
  \/ \E ok \in BOOLEAN : PrintServiceReturned(ok)
  \/ SendGotObservances
  \/ SendGotResponse
  \/ PrintObservancesTimeout
  \/ PrintPdfTimeout
  \/ SendObservancesTimeout
  \/ SendResponseTimeout
  \/ \E a \in TestAnswers : TestConnection(a)
  \/ \E data \in ServiceObservances :
       HandleUpdateStateObservances(EntryId, data)
  \/ HandlePdfChunk(EntryId, "r1", WholePdf[1], WholePdf[2], WholePdf[3])
  \/ \E msg \in ServiceResults : HandleOperationResult(msg)
  \/ OperationResultSaved

SpecServices == InitPdf /\ [][NextServices]_vars

\* update_state messages with config_entry_id and observances data, while
\* the coordinator polls
NextData ==
  \/ \E msg \in DataMsgs : ReceiveUpdateState(msg)
  \/ HandleUpdateStateData
  \/ HandleUpdateStateEntity
  \/ CoordStart
  \/ CoordGotObservances
  \/ CoordObservancesTimeout
  \/ CoordStatsTimeout

SpecData == InitTracked /\ [][NextData]_vars

\* print_next_observance alone, over every printer configuration
NextPrint ==
  \/ GetObservancesStart("print")
  \/ PrintGotObservances
  \/ \E req \in PrintRequests : PrintChoosePrinter(req)
  \/ \E ok \in BOOLEAN : PrintServiceReturned(ok)
  \/ PrintObservancesTimeout
  \/ PrintPdfTimeout
  \/ \E data \in ServiceObservances :
       HandleUpdateStateObservances(EntryId, data)
  \/ HandlePdfChunk(EntryId, "r1", WholePdf[1], WholePdf[2], WholePdf[3])

SpecPrint == InitPdf /\ [][NextPrint]_vars

\* ------------------------------------------------------------------ claims

\* C1: within one call of a handle_401-wrapped operation authenticate is
\* invoked at most once and the wrapped operation at most twice; a 401 raised
\* by the retry reaches the caller with no further re-authentication.
C1_OneReauthAndRetry ==
  /\ authCalls <= 1
  /\ opCalls <= 2
  /\ (opCalls = 2 => authCalls = 1)
  /\ (opCalls = 2 /\ lastStatus = "401" =>
        connPc \in {"done", "idle"} /\ connRes = HttpError("401"))

C1_Witness ==
  connPc = "done" /\ opCalls = 2 /\ authCalls = 1 /\ lastStatus = "401"

\* C2: when an invocation of a wrapped operation raises an HTTP error whose
\* status is not 401, that step ends the call with the same error, calls
\* authenticate no more, retries no more and leaves credentials and cookies
\* alone; when it is the first invocation that raised it, authenticate was
\* never called and credentials and cookies are those the call started with.
C2_RaisedNon401 ==
  /\ opCalls' = opCalls + 1
  /\ lastStatus' \in HttpStatuses \ {"200", "401"}

C2_OtherErrorPropagates ==
  /\ [][C2_RaisedNon401 =>
          /\ connPc' = "done"
          /\ connRes' = HttpError(lastStatus')
          /\ authCalls' = authCalls
          /\ UNCHANGED <<username, password, cookies>>]_vars
  /\ [](connPc = "done" /\ opCalls = 1 /\ lastStatus \in {"403", "500"} =>
          /\ connRes = HttpError(lastStatus)
          /\ authCalls = 0
          /\ <<username, password, cookies>> = connAtStart)

C2_Witness ==
  /\ connPc = "done" /\ opCalls = 1 /\ lastStatus = "403"
  /\ connRes = HttpError("403") /\ ~Falsy(username) /\ ~Falsy(password)

\* ------------------------------------------- claims on the correlation

\* the waits of a waiter
WaitStates == {"wait_obs", "wait_pdf", "wait_op"}

\* futures of a key that are in flight: created and neither resolved, failed
\* nor timed out
InFlight(key) ==
  {t \in Tasks : futures[t].key = key /\ futures[t].state = "pending"}

\* the step is a websocket handler that answers waits on the key
ResponseOn(key) ==
  IF key = "observances_future"
    THEN \E eid \in ConfigEntryIds, data \in ObservancesData :
           HandleUpdateStateObservances(eid, data)
  ELSE IF key = "pdf_future"
    THEN \E eid \in ConfigEntryIds, rid \in PdfRequestIds,
            i \in ChunkIndexes, n \in ChunkTotals \cup {WholePdf[2]},
            d \in ChunkPayloads : HandlePdfChunk(eid, rid, i, n, d)
  ELSE \/ \E msg \in OperationResults : HandleOperationResult(msg)
       \/ OperationResultSaved

\* the step is such a handler and it changed a future
Resolves(key) == futures' # futures /\ pc' = pc /\ ResponseOn(key)

\* a wait of waiter t on the key ended by the timeout
TimedOut(t, key) == futures[t].key = key /\ futures[t].state = "cancelled"

\* C3: in every reachable state there is at most one in-flight future per
\* correlation key of the config entry.
C3_AtMostOneInFlight ==
  \A k \in FutureKeys : Cardinality(InFlight(k)) <= 1

\* C4: a repeated chunk_index overwrites the stored chunk without increasing
\* the count (the buffer holds one chunk per distinct index received, with
\* the payload received last), and a chunk message completes pdf_future only
\* in a reassembly, for which as many distinct indexes as the message's
\* total_chunks were received.
DistinctIndexes(log) == {log[i][1] : i \in 1 .. Len(log)}

LastPayload(log, idx) ==
  LET last == CHOOSE i \in 1 .. Len(log) :
                /\ log[i][1] = idx
                /\ \A j \in (i + 1) .. Len(log) : log[j][1] # idx
  IN log[last][3]

C4_BufferMatchesLog ==
  \A rid \in PdfRequestIds :
    IF pdf_chunks[rid].present
      THEN /\ Len(pdf_chunks[rid].chunks)
                = Cardinality(DistinctIndexes(pdfLog[rid]))
           /\ \A p \in 1 .. Len(pdf_chunks[rid].chunks) :
                /\ pdf_chunks[rid].chunks[p][1] \in DistinctIndexes(pdfLog[rid])
                /\ pdf_chunks[rid].chunks[p][2]
                     = LastPayload(pdfLog[rid], pdf_chunks[rid].chunks[p][1])
      ELSE pdfLog[rid] = <<>>

\* the step completed waiter t's pdf_future (set_result or set_exception)
PdfDelivered(t) ==
  /\ futures[t].key = "pdf_future"
  /\ futures'[t].key = "pdf_future"
  /\ futures'[t].sets # futures[t].sets

C4_ReassemblesOnlyWhenComplete ==
  /\ [](C4_BufferMatchesLog)
  /\ [][\A t \in Tasks : PdfDelivered(t) =>
          /\ futures'[t].state = "result"
          /\ pdfDone'.future = t
          /\ Cardinality(DistinctIndexes(pdfDone'.log)) = pdfDone'.total
          /\ DistinctIndexes(pdfDone'.log) = 0 .. (pdfDone'.total - 1)]_vars

\* a reassembly completed a future after an index was received twice
C4_Witness ==
  /\ pdfDone.future # "none"
  /\ pdfDone.total = 2
  /\ Len(pdfDone.log) = 3
  /\ futures[pdfDone.future].state = "result"

\* C5: when all chunk messages of a request declare the same total T and
\* carry each index 0..T-1, the string delivered to pdf_future is the
\* payloads joined in ascending chunk_index order, whatever the arrival order.
SameTotal(log, total) == \A i \in 1 .. Len(log) : log[i][2] = total

RECURSIVE ExpectedString(_, _, _)
ExpectedString(log, i, total) ==
  IF i >= total THEN ""
  ELSE LastPayload(log, i) \o ExpectedString(log, i + 1, total)

C5_AscendingIndexOrder ==
  [][\A t \in Tasks :
       /\ PdfDelivered(t)
       /\ SameTotal(pdfDone'.log, pdfDone'.total)
       /\ DistinctIndexes(pdfDone'.log) = 0 .. (pdfDone'.total - 1)
       => /\ futures'[t].value = ExpectedString(pdfDone'.log, 0, pdfDone'.total)
          /\ pdfDone'.string = futures'[t].value]_vars

\* three chunks that arrived in descending order were delivered ascending
C5_Witness ==
  /\ pdfDone.future # "none"
  /\ pdfDone.total = 3
  /\ pdfDone.log = <<<<2, 3, "b">>, <<1, 3, "a">>, <<0, 3, "a">>>>
  /\ futures[pdfDone.future].value = "aab"

\* C6: every wait on a correlation future ends: a waiter that is waiting
\* finishes its call, by the timeout when no response resolves its future.
C6_EveryWaitEnds ==
  \A t \in Tasks : (pc[t] \in WaitStates) ~> (pc[t] = "done")

\* a call ended by the timeout of its wait
C6_Witness ==
  /\ pc["coord"] = "done"
  /\ TimedOut("coord", "operation_future")
  /\ outcome["coord"] = <<"None", "timeout_stats">>

\* C7: a future is completed at most once, a waiter that leaves its wait
\* leaves the key absent, and a response handled after the wait for it timed
\* out resolves no future: neither a push result handled after
\* send_attendance gave up, nor a stats result handled after the coordinator
\* gave up, changes the future of a later caller.
LeavesWait(t, key) ==
  /\ pc[t] \in WaitStates
  /\ futures[t].key = key
  /\ pc'[t] # pc[t]

C7_CompletedOnce == \A t \in Tasks : futures[t].sets <= 1

C7_SlotRemoved ==
  \A t \in Tasks, k \in FutureKeys : LeavesWait(t, k) => slot'[k] = "none"

\* the step handles an operation_result that answers a request whose caller
\* has timed out and waits for it no more
LateOperationResult ==
  \/ /\ TimedOut("send", "operation_future")
     /\ \/ \E msg \in OperationResults :
             /\ msg.success
             /\ HasInitiatedCount(msg.data)
             /\ HandleOperationResult(msg)
        \/ OperationResultSaved
  \/ /\ TimedOut("coord", "operation_future")
     /\ \E msg \in OperationResults :
          /\ msg.success
          /\ HasSummary(msg.data)
          /\ HandleOperationResult(msg)

C7_LateResponseResolvesNothing ==
  /\ [](C7_CompletedOnce)
  /\ [][C7_SlotRemoved]_vars
  /\ [][futures' # futures /\ pc' = pc => ~LateOperationResult]_vars

\* C8: a caller that installs its future takes the slot from the future of
\* a caller already waiting on the key, and one operation_result completes
\* the future in the slot only, never two futures.
Installs(t, k) ==
  /\ futures'[t] # futures[t]
  /\ futures'[t].key = k
  /\ futures'[t].state = "pending"

C8_NoProtection ==
  /\ [][\A t \in Tasks, k \in FutureKeys : Installs(t, k) => slot'[k] = t]_vars
  /\ [][Resolves("operation_future") =>
          /\ Cardinality({t \in Tasks : futures'[t] # futures[t]}) <= 1
          /\ \A t \in Tasks : futures'[t] # futures[t] =>
               slot["operation_future"] = t]_vars

\* send_attendance and the coordinator wait on operation_future together:
\* the coordinator's future took the slot and got the result, the handler's
\* is still pending
C8_Witness ==
  /\ pc["send"] = "wait_op" /\ pc["coord"] = "wait_op"
  /\ futures["send"].state = "pending"
  /\ futures["coord"].state = "result"
  /\ slot["operation_future"] = "coord"

\* C9: within one call each request is fired at most once; a call that timed
\* out has ended and fires nothing more.
C9_NoRetry ==
  /\ [](\A t \in Tasks, k \in RequestKinds : fired[t][k] <= 1)
  /\ [][\A t \in Tasks :
          pc[t] \in WaitStates /\ futures'[t].state = "cancelled"
          => pc'[t] = "done" /\ fired'[t] = fired[t]]_vars

\* a print call fired its PDF request once and ended by the timeout
C9_Witness ==
  /\ pc["print"] = "done"
  /\ outcome["print"] = <<"returned", "timeout">>
  /\ fired["print"]["pdf"] = 1

\* C10: a coordinator update that ends on an exception (a failed
\* operation_result, a malformed observances answer) raises UpdateFailed, and
\* UpdateFailed comes from nothing else; one that ends on a response timeout
\* gives None.
C10_UpdateFailedOrNone ==
  /\ [](pc["coord"] = "done" =>
          /\ futures["coord"].state = "exception"
               => outcome["coord"][1] = "UpdateFailed"
          /\ futures["coord"].state = "result"
               /\ futures["coord"].key = "observances_future"
               /\ ObservancesVerdict(futures["coord"].value) = "raise"
               => outcome["coord"][1] = "UpdateFailed"
          /\ futures["coord"].state = "cancelled"
               => outcome["coord"][1] = "None"
          /\ outcome["coord"][1] = "UpdateFailed"
               => \/ futures["coord"].state = "exception"
                  \/ ObservancesVerdict(futures["coord"].value) = "raise")
  /\ [][pc["coord"] \in WaitStates /\ futures'["coord"].state = "cancelled"
          => coordData' = "None"]_vars

\* an update failed by an operation_result with success=false
C10_Witness ==
  /\ pc["coord"] = "done"
  /\ futures["coord"].key = "operation_future"
  /\ futures["coord"].state = "exception"
  /\ futures["coord"].value = "Operation failed"
  /\ outcome["coord"] = <<"UpdateFailed", "operation_failed">>

\* C13: for a set-up entry whose sensors are subscribed, each of the weekly
\* schedule, lessons, memorials and messages sensors shows the cached value of
\* its kind (its initial value while nothing is cached), and a handled
\* update_state message makes the sensor of its kind show the message's state
\* and attributes while every other sensor keeps what it showed.
C13_Handled(msg, e, k) ==
  /\ msg.state # "absent"
  /\ e \in Targets(msg)
  /\ k = KindOf(msg.entity_id)

C13_SensorsShowLastMessage ==
  /\ [](\A e \in ConfigEntryIds : Connected(e) =>
          \A k \in KindSet :
            sensors[e][k] = IF cache[e][k] # NoValue THEN cache[e][k]
                            ELSE InitialSensor(k))
  /\ [][inbox # <<>> /\ inbox' = <<>> =>
          \A e \in ConfigEntryIds, k \in KindSet : Connected(e) =>
            /\ sensors'[e][k] = IF C13_Handled(inbox[1], e, k)
                                  THEN ValueOf(inbox[1])
                                  ELSE sensors[e][k]
            /\ sensors'[e][k] = IF cache'[e][k] # NoValue THEN cache'[e][k]
                                ELSE InitialSensor(k)]_vars

\* the second entry was set up after a messages update was cached for it, and
\* the two entries show different last messages
C13_Witness ==
  /\ Connected("e2")
  /\ stateMsgs >= 2
  /\ inbox = <<>>
  /\ sensors["e2"]["messages"] = [state |-> "s2", attributes |-> "{}"]
  /\ sensors["e1"]["messages"] = [state |-> "s1", attributes |-> "a1"]

\* C14: the websocket commands are registered once globally, not per entry:
\* however many config entries are set up, each command was registered by a
\* single call of websocket_api.async_register_command.
C14_RegisteredOnce == \A c \in WsCommands : registrations[c] <= 1

\* C19 as stated: an update_state message in the new format that names a
\* set-up entry and carries a state not cached yet changes exactly one cached
\* value.
C19_ChangesExactlyOne ==
  [][/\ inbox # <<>> /\ inbox' = <<>> /\ Format(inbox[1]) = 1
     /\ inbox[1].state # "absent"
     /\ inbox[1].config_entry_id \in ConfigEntryIds
     /\ entryState[inbox[1].config_entry_id] # "unloaded"
     /\ \A k \in KindSet :
          cache[inbox[1].config_entry_id][k] # ValueOf(inbox[1])
     => Cardinality({ek \in ConfigEntryIds \X KindSet :
                       cache'[ek[1]][ek[2]] # cache[ek[1]][ek[2]]}) = 1]_vars

\* C19, amended: an update_state message in the new format (config_entry_id
\* and data with a nested entity_id) writes at most one cached value, that of
\* the named entry and of the first of weekly_schedule, lessons, memorials,
\* messages found in the entity_id, and none when the entity_id holds none of
\* the four words or data holds no state; every other entry and kind, the
\* futures and their slots, the observances data and the tracked date and
\* count stay as they were, and a config_entry_id that names no set-up entry
\* changes nothing.
C19_FirstKind(entity_id) ==
  IF "weekly_schedule" \in Mentions(entity_id) THEN "weekly_schedule"
  ELSE IF "lessons" \in Mentions(entity_id) THEN "lessons"
  ELSE IF "memorials" \in Mentions(entity_id) THEN "memorials"
  ELSE IF "messages" \in Mentions(entity_id) THEN "messages"
  ELSE "none"

C19_Written(msg, e, k) ==
  /\ msg.state # "absent"
  /\ e = msg.config_entry_id
  /\ entryState[e] # "unloaded"
  /\ k = C19_FirstKind(msg.entity_id)

C19_NewFormatWritesOneValue ==
  [][inbox # <<>> /\ inbox' = <<>> /\ Format(inbox[1]) = 1 =>
       /\ \A e \in ConfigEntryIds, k \in KindSet :
            cache'[e][k] = IF C19_Written(inbox[1], e, k)
                             THEN ValueOf(inbox[1])
                             ELSE cache[e][k]
       /\ \A e \in ConfigEntryIds :
            e # inbox[1].config_entry_id => sensors'[e] = sensors[e]
       /\ UNCHANGED <<futures, slot, observances_data, next_observance_date,
                      initiated_count>>]_vars

\* one message was handled while the coordinator waits on its future: the
\* second entry has a weekly schedule cached, the first entry has nothing
C19_Witness ==
  /\ stateMsgs = 1
  /\ inbox = <<>>
  /\ cache["e2"]["weekly_schedule"] = [state |-> "s1", attributes |-> "a1"]
  /\ \A k \in KindSet \ {"weekly_schedule"} : cache["e2"][k] = NoValue
  /\ cache["e1"] = EmptyCache
  /\ futures["coord"].state = "pending"

\* C20: an update_state message in the legacy format (entity_id at the top
\* level) is applied to every set-up config entry: each dict-valued item of
\* hass.data[DOMAIN] gets the same cached value and its own dispatcher
\* signal, which its subscribed sensor shows, while the values that are no
\* dicts (the tracked count and date) are skipped and stay as they were.
C20_Written(msg, e, k) ==
  /\ msg.state # "absent"
  /\ entryState[e] # "unloaded"
  /\ k = C19_FirstKind(msg.entity_id)

C20_LegacyAppliedToEveryEntry ==
  [][inbox # <<>> /\ inbox' = <<>> /\ Format(inbox[1]) = 2 =>
       /\ \A e \in ConfigEntryIds, k \in KindSet :
            /\ cache'[e][k] = IF C20_Written(inbox[1], e, k)
                                THEN ValueOf(inbox[1])
                                ELSE cache[e][k]
            /\ Connected(e) /\ C20_Written(inbox[1], e, k) =>
                 sensors'[e][k] = ValueOf(inbox[1])
       /\ UNCHANGED <<initiated_count, next_observance_date, futures, slot>>]_vars

\* one legacy message was handled with two entries set up beside the tracked
\* count and date: both entries cache and show the same lessons value
C20_Witness ==
  /\ stateMsgs = 1
  /\ inbox = <<>>
  /\ Connected("e2")
  /\ cache["e1"]["lessons"] = [state |-> "s2", attributes |-> "{}"]
  /\ cache["e2"]["lessons"] = cache["e1"]["lessons"]
  /\ sensors["e2"]["lessons"] = cache["e2"]["lessons"]
  /\ {CountKey, DateKey} \subseteq DomainKeys
  /\ initiated_count = 2
  /\ next_observance_date = "d1"

C16_StopsUntilNewDate ==
  /\ [][/\ pc["coord"] = "wait_obs" /\ pc'["coord"] # "wait_obs"
        /\ futures["coord"].state = "result"
        /\ \/ futures["coord"].value \in {"{}", "no_next", "no_date"}
           \/ futures["coord"].value \in Dates \ {date["coord"]}
        => /\ next_observance_date' = "None"
           /\ pc'["coord"] = "done"
           /\ outcome'["coord"][1] = "None"
           /\ fired' = fired]_vars
  /\ [][next_observance_date = "None" /\ calls' = calls + 1
        => /\ fired'["coord"] = [k \in RequestKinds |-> 0]
           /\ pc'["coord"] = "done"]_vars
  /\ [][next_observance_date = "None" /\ next_observance_date' # "None"
        => /\ saving = <<>> /\ saving' # <<>>
           /\ HasInitiatedCount(saving'[1].data)
           /\ next_observance_date' = PushDate(saving'[1].data)]_vars

\* a date was tracked and stored, the observance changed, and the update
\* after that returned at once
C16_Witness ==
  /\ stored # <<>>
  /\ next_observance_date = "None"
  /\ calls = 2
  /\ pc["coord"] = "done"
  /\ outcome["coord"] = <<"None", "no_date_tracked">>
  /\ fired["coord"] = [k \in RequestKinds |-> 0]

\* C17: handle_operation_result completes the future under operation_future,
\* when there is one and it is not done, with the message's data if success
\* is true and with an exception carrying error_message ("Operation failed"
\* when none is given) if it is false; when there is none, or it is done, no
\* future changes; in both cases the sender gets a result reply.
C17_Completes(msg) ==
  /\ reply' = <<"result">>
  /\ IF /\ slot["operation_future"] # "none"
        /\ futures[slot["operation_future"]].key = "operation_future"
        /\ futures[slot["operation_future"]].state = "pending"
       THEN /\ futures'[slot["operation_future"]].state =
                 IF msg.success THEN "result" ELSE "exception"
            /\ futures'[slot["operation_future"]].value =
                 IF msg.success THEN msg.data
                 ELSE IF msg.error_message # "none" THEN msg.error_message
                 ELSE "Operation failed"
            /\ \A t \in Tasks \ {slot["operation_future"]} :
                 futures'[t] = futures[t]
       ELSE futures' = futures

C17_OperationResultCompletes ==
  /\ [][\A msg \in OperationAnswers :
          HandleOperationResult(msg) /\ saving' = <<>> => C17_Completes(msg)]_vars
  /\ [][saving # <<>> /\ saving' = <<>> => C17_Completes(saving[1])]_vars

\* a failure without a message failed the coordinator's pending future
C17_Witness ==
  /\ pc["coord"] = "wait_op"
  /\ futures["coord"].key = "operation_future"
  /\ futures["coord"].state = "exception"
  /\ futures["coord"].value = "Operation failed"
  /\ reply = <<"result">>

\* C18 as stated: a pdf_chunk or operation_result message whose
\* config_entry_id is not that of a set-up entry is answered not_found.
C18_SetUp(id) == id \in ConfigEntryIds /\ entryState[id] # "unloaded"

C18_NotSetUpIsNotFound ==
  /\ [][\A msg \in WsResults :
          HandleOperationResult(msg) /\ ~C18_SetUp(msg.config_entry_id)
            => reply' = <<"not_found">>]_vars
  /\ [][\A id \in WsIds, i \in {0, 1} :
          HandlePdfChunk(id, "r1", i, 2, "a") /\ ~C18_SetUp(id)
            => reply' = <<"not_found">>]_vars

\* C18, amended: each message handled by handle_pdf_chunk or
\* handle_operation_result gets exactly one reply, an error or a result; for
\* a config_entry_id that is no key of hass.data[DOMAIN] the reply is the
\* error not_found, for one that is the key of a value that is no dict it is
\* the error invalid_entry, and in both cases no cached value, chunk buffer,
\* store or future is changed.
C18_Rejected(id) ==
  /\ reply' = <<IF id \in DomainKeys THEN "invalid_entry" ELSE "not_found">>
  /\ UNCHANGED <<cache, observances_data, next_observance_date,
                 initiated_count, pdf_chunks, stored, saving, futures, slot,
                 sensorCount, sensorNextDate, coordData>>

C18_OneReply ==
  /\ [](Len(reply) <= 1)
  /\ [][\A msg \in WsResults : HandleOperationResult(msg) =>
          /\ Len(reply') = 1 \/ (reply' = <<>> /\ saving' = <<msg>>)
          /\ ~C18_SetUp(msg.config_entry_id) =>
               C18_Rejected(msg.config_entry_id)]_vars
  /\ [][saving # <<>> /\ saving' = <<>> => Len(reply') = 1]_vars
  /\ [][\A id \in WsIds, i \in {0, 1} :
          HandlePdfChunk(id, "r1", i, 2, "a") =>
            /\ Len(reply') = 1
            /\ ~C18_SetUp(id) => C18_Rejected(id)]_vars

\* the key of the tracked count was named while a chunk is buffered and the
\* coordinator waits: the message was refused as invalid_entry
C18_Witness ==
  /\ reply = <<"invalid_entry">>
  /\ pdf_chunks["r1"].present
  /\ pc["coord"] = "wait_op"
  /\ futures["coord"].state = "pending"

\* C11: a call of print_next_observance, send_attendance or test_connection
\* that met an unexpected exception (a failed operation_result delivered to
\* its future, a nextObservance that is no dict, a failing print service, an
\* error while testing) ends by raising it; one that met an expected failure
\* (no observances data, no next observance or no date, a response timeout,
\* no printer entity, an unreachable server) ends by returning.
C11_Ended(t) ==
  /\ futures[t].state = "exception" => outcome[t][1] = "raised"
  /\ futures[t].state = "cancelled" => outcome[t][1] = "returned"
  /\ futures[t].key = "observances_future" /\ futures[t].state = "result" =>
       outcome[t][1] = IF futures[t].value = "bad_next" THEN "raised"
                       ELSE "returned"
  /\ outcome[t][2] = "print_failed" => outcome[t][1] = "raised"
  /\ outcome[t][2] \in {"no_data", "no_next", "no_date", "timeout",
                        "no_printer"} => outcome[t][1] = "returned"

C11_RaisedOrReturned ==
  /\ \A t \in {"print", "send"} : pc[t] = "done" => C11_Ended(t)
  /\ testOutcome[2] = "test_error" => testOutcome[1] = "raised"
  /\ testOutcome[2] \in {"test_ok", "test_failed"} =>
       testOutcome[1] = "returned"

\* send_attendance ended on the exception of a failed operation_result, and
\* print_next_observance ended early on a timeout
C11_Witness ==
  /\ pc["send"] = "done"
  /\ futures["send"].state = "exception"
  /\ outcome["send"] = <<"raised", "operation_failed">>
  /\ pc["print"] = "done"
  /\ outcome["print"] = <<"returned", "timeout">>

\* C12: print_next_observance requests the PDF only when its observances
\* response named a next observance with a date, and for that date; it calls
\* the printer service only when the future of that request holds the
\* reassembled PDF and a printer entity was found; a call that ended without
\* passing through the printer service call ended on one of the other paths,
\* and with no printer entity the service is not called.
C12_PrintsOnlyAfterPdf ==
  /\ [][pc["print"] # "wait_pdf" /\ pc'["print"] = "wait_pdf"
        => /\ pc["print"] = "wait_obs"
           /\ futures["print"].key = "observances_future"
           /\ futures["print"].state = "result"
           /\ futures["print"].value \in Dates
           /\ date'["print"] = futures["print"].value
           /\ fired'["print"]["pdf"] = 1
           /\ futures'["print"] = NewFuture("pdf_future")]_vars
  /\ [][pc["print"] # "printing" /\ pc'["print"] = "printing"
        => /\ pc["print"] = "wait_pdf"
           /\ fired["print"]["pdf"] = 1
           /\ date["print"] \in Dates
           /\ futures["print"].key = "pdf_future"
           /\ futures["print"].state = "result"
           /\ futures["print"].value = pdfDone.string]_vars
  /\ [][pc'["print"] = "done" /\ pc["print"] # "done"
        => (outcome'["print"][2] \in {"printed", "print_failed"}
              <=> pc["print"] = "printing")]_vars
  /\ [][PrintGotPdf("none") => pc'["print"] = "done"
                               /\ outcome'["print"][2] = "no_printer"]_vars

\* the printer service was called and returned, after the PDF of d1
C12_Witness ==
  /\ pc["print"] = "done"
  /\ outcome["print"] = <<"returned", "printed">>
  /\ date["print"] = "d1"
  /\ fired["print"]["pdf"] = 1
  /\ futures["print"].key = "pdf_future"
  /\ futures["print"].state = "result"

\* C21 as stated: an update_state message with the config_entry_id of the
\* set-up entry and data without a nested entity_id stores the data as the
\* entry's observances_data and is acknowledged.
C21_DataAlwaysStored ==
  [][/\ inbox # <<>> /\ inbox' = <<>>
     /\ inbox[1].config_entry_id = EntryId
     /\ inbox[1].data \notin {"absent", "entity"}
     => observances_data' = inbox[1].data /\ reply' = <<"result">>]_vars

\* C21, amended: an update_state message with the config_entry_id of the
\* set-up entry, data without a nested entity_id and no entity_id at the top
\* level stores the data as the entry's observances_data, completes the
\* future under observances_future with it when there is one and it is not
\* done, leaves every future alone otherwise, and is acknowledged; with an
\* entity_id at the top level the message is taken as a legacy one and the
\* observances data and the futures stay as they were.
C21_Pending ==
  /\ slot["observances_future"] # "none"
  /\ futures[slot["observances_future"]].key = "observances_future"
  /\ futures[slot["observances_future"]].state = "pending"

C21_DataStoredAndFutureResolved ==
  [][/\ inbox # <<>> /\ inbox' = <<>>
     /\ inbox[1].config_entry_id = EntryId
     /\ inbox[1].data \notin {"absent", "entity"}
     => IF inbox[1].top
          THEN UNCHANGED <<observances_data, futures, slot>>
          ELSE /\ observances_data' = inbox[1].data
               /\ reply' = <<"result">>
               /\ UNCHANGED <<slot, cache, sensors>>
               /\ IF C21_Pending
                    THEN /\ futures'[slot["observances_future"]].state
                              = "result"
                         /\ futures'[slot["observances_future"]].value
                              = inbox[1].data
                         /\ \A t \in Tasks \ {slot["observances_future"]} :
                              futures'[t] = futures[t]
                    ELSE futures' = futures]_vars

\* the coordinator's pending future was resolved with the data of a message
\* that was stored and acknowledged
C21_Witness ==
  /\ inbox = <<>>
  /\ pc["coord"] = "wait_obs"
  /\ futures["coord"].state = "result"
  /\ futures["coord"].value = "no_next"
  /\ observances_data = "no_next"
  /\ reply = <<"result">>

\* C22: a temporary PDF file of print_next_observance exists only while the
\* print call is running: when the handler has finished after creating the
\* file (printed, print call raised, no printer entity found) the file is
\* deleted, and none is left from an earlier call.
C22_TempFileDeleted ==
  tmp_files = IF pc["print"] = "printing" THEN 1 ELSE 0

C22_DeletedOnEnd ==
  [][/\ pc["print"] \in {"wait_pdf", "printing"}
     /\ pc'["print"] = "done"
     /\ outcome'["print"][2] \in {"printed", "print_failed", "no_printer"}
     => tmp_files' = 0]_vars

C23_SetOnlyAfterPrint ==
  [][last_invoked' # last_invoked
     => /\ pc["print"] = "printing"
        /\ outcome'["print"] = <<"returned", "printed">>
        /\ last_invoked' = calls]_vars

C23_UnchangedOtherwise ==
  [][/\ pc["print"] # "done"
     /\ pc'["print"] = "done"
     /\ outcome'["print"][2] # "printed"
     => last_invoked' = last_invoked]_vars

C23_PrintedSetsSensor ==
  [][/\ pc["print"] = "printing"
     /\ outcome'["print"][2] = "printed"
     => last_invoked' = calls /\ last_invoked' # last_invoked]_vars

C23_LastInvokedOnlyAfterPrint ==
  C23_SetOnlyAfterPrint /\ C23_UnchangedOtherwise /\ C23_PrintedSetsSensor

\* the first call printed and set the sensor; the second call's print
\* raised and the sensor still shows the first call
C23_Witness ==
  /\ calls = 2
  /\ pc["print"] = "done"
  /\ outcome["print"] = <<"raised", "print_failed">>
  /\ last_invoked = 1

\* C24: once print_next_observance has chosen, the entity_id of its print
\* call is the printer_entity of the service call when one is given, else
\* the first entity in the entity registry that belongs to the configured
\* printer device and to the ipp_printer_service platform, else the legacy
\* configured printer entity; when all three are absent the handler ends
\* with no print call, and otherwise the print call is made.
C24_IppEntities(r) ==
  {i \in 1..Len(r.registry) :
     /\ r.device_id # "none"
     /\ r.registry[i].device_id = r.device_id
     /\ r.registry[i].platform = "ipp_printer_service"}

C24_Expected(r) ==
  IF r.printer_entity # "none" THEN r.printer_entity
  ELSE IF C24_IppEntities(r) # {}
         THEN r.registry[CHOOSE i \in C24_IppEntities(r) :
                           \A j \in C24_IppEntities(r) : i <= j].entity_id
  ELSE r.legacy

C24_PrinterByPriority ==
  printRequest # NoRequest =>
    /\ printCall = C24_Expected(printRequest[1])
    /\ IF printCall = "none"
         THEN /\ pc["print"] = "done"
              /\ outcome["print"] = <<"returned", "no_printer">>
         ELSE \/ pc["print"] = "printing"
              \/ /\ pc["print"] = "done"
                 /\ outcome["print"][2] \in {"printed", "print_failed"}

\* no printer_entity in the call, a device whose first ipp_printer_service
\* entity comes third in the registry, and a legacy entity configured: the
\* device's entity was used
C24_Witness ==
  /\ printRequest # NoRequest
  /\ printRequest[1].printer_entity = "none"
  /\ printRequest[1].legacy = "sensor.legacy"
  /\ Len(printRequest[1].registry) = 4
  /\ printCall = "sensor.dev1_a"
  /\ outcome["print"] = <<"returned", "printed">>

\* C25: send_attendance fires the attendance-push request only in the step
\* in which it got an observances response that names a next observance
\* with a date; it requests a coordinator refresh only in the step in which
\* its wait ended on a successful answer to the attendance push; and a wait
\* that ended on the timeout or on a failed result requests no refresh.
C25_PushOnlyWithDate ==
  [][fired'["send"]["attendance_push"] > fired["send"]["attendance_push"]
     => /\ pc["send"] = "wait_obs"
        /\ GotResult("send")
        /\ futures["send"].value \in Dates]_vars

C25_RefreshOnlyAfterPush ==
  [][refreshRequests' > refreshRequests
     => /\ pc["send"] = "wait_op"
        /\ GotResult("send")
        /\ HasInitiatedCount(futures["send"].value)]_vars

C25_NoRefreshOtherwise ==
  [][/\ pc["send"] = "wait_op"
     /\ pc'["send"] = "done"
     /\ futures'["send"].state \in {"cancelled", "exception"}
     => refreshRequests' = refreshRequests]_vars

C25_PushThenRefresh ==
  C25_PushOnlyWithDate /\ C25_RefreshOnlyAfterPush /\ C25_NoRefreshOtherwise

====
